---- MODULE Spec2Model ----
(***************************************************************************)
(* Band gap prediction: the inference pipeline of predict_band_gap, in its *)
(* two entry scripts (rf.py and band_gap_prediction.py), the interactive   *)
(* loop process_user_input that drives it, and the column alignment        *)
(* (DataFrame.reindex with fill_value=0) it applies to the features.       *)
(***************************************************************************)
EXTENDS Integers, Sequences, FiniteSets, TLC

\* ---------------------------------------------------------------- bounds
\* Requests entered at the prompt before only 'exit' is entered.
MaxRequests == 2
\* Feature values of the alignment inputs range over 0..MaxVal.
MaxVal == 1
\* Longest feature_columns list of the alignment inputs.
MaxCols == 2

\* ------------------------------------------------------ program constants
\* reindex(columns=feature_columns, fill_value=0)
FillValue == 0
\* What featurize_dataframe(..., ignore_errors=True) stores for a feature it
\* could not compute.
NaN == -1
\* A non-numeric cell (the formula string, the Composition object).
Obj == -2

Scripts == {"rf", "band_gap_prediction"}

required_files == <<"bandgap_model.joblib", "scaler.joblib", "feature_columns.joblib">>

Files == {required_files[i] : i \in 1..Len(required_files)}

\* The return value None, and a returned scalar v.
None == <<>>
Scalar(v) == <<v>>

\* ------------------------------------------------------------ the prompt
\* What the user can type at input().
Inputs == {"exit", "EXIT", "Exit", "Fe2O3", "NaCl", "Xx2", ""}

\* Mutant: the comparison with 'exit' made without lower().
LowerMissing(s) == s

\* str.lower() on the inputs.
Lower(s) ==
    CASE s = "EXIT" -> "exit"
      [] s = "Exit" -> "exit"
      [] s = "Fe2O3" -> "fe2o3"
      [] s = "NaCl" -> "nacl"
      [] s = "Xx2" -> "xx2"
      [] OTHER -> s

\* -------------------------------------------------------------- DataFrame
\* A one-row frame is the sequence of its columns, [name, val].
Col(n, v) == [name |-> n, val |-> v]

Labels(df) == [i \in 1..Len(df) |-> df[i].name]

IsUnique(labels) == \A i, j \in 1..Len(labels) : labels[i] = labels[j] => i = j

HasLabel(df, c) == \E j \in 1..Len(df) : df[j].name = c

ValueOf(df, c) == df[CHOOSE j \in 1..Len(df) : df[j].name = c].val

\* Mutant: the columns the frame lacks are left out instead of filled
\* (df[[c for c in columns if c in df]]).
ReindexDropAbsent(df, columns) ==
    [raised |-> FALSE,
     frame |-> LET present == SelectSeq(columns, LAMBDA c : HasLabel(df, c))
               IN  [i \in 1..Len(present) |-> Col(present[i], ValueOf(df, present[i]))]]

\* Mutant: no shortcut for an axis equal to the target, so a frame with
\* duplicate labels always raises.
ReindexNoShortcut(df, columns) ==
    IF ~IsUnique(Labels(df))
    THEN [raised |-> TRUE, frame |-> <<>>]
    ELSE [raised |-> FALSE,
          frame |-> [i \in 1..Len(columns) |->
                        Col(columns[i],
                            IF HasLabel(df, columns[i])
                            THEN ValueOf(df, columns[i])
                            ELSE FillValue)]]

\* DataFrame.reindex(columns=columns, fill_value=FillValue): an axis equal to
\* the target is kept as it is; otherwise a duplicate-labelled axis raises, and
\* a unique one is looked up label by label, a label it lacks being filled.
Reindex(df, columns) ==
    IF Labels(df) = columns
    THEN [raised |-> FALSE, frame |-> df]
    ELSE IF ~IsUnique(Labels(df))
    THEN [raised |-> TRUE, frame |-> <<>>]
    ELSE [raised |-> FALSE,
          frame |-> [i \in 1..Len(columns) |->
                        Col(columns[i],
                            IF HasLabel(df, columns[i])
                            THEN ValueOf(df, columns[i])
                            ELSE FillValue)]]

\* ----------------------------------------------------------- environment
VARIABLES
    script,         \* which entry script this process runs
    files,          \* each artifact file: "missing", "corrupt" or "ok"
    matminer,       \* "absent", "no_preset" or "ok"
    empty_raises,   \* whether the installed Composition("") raises
    saved_columns,  \* the list stored in feature_columns.joblib
    scaler_width,   \* the number of features the stored scaler was fitted on
    nan_rejected,   \* whether the stored regressor raises on NaN input
    call,           \* the current call of predict_band_gap and the loop's place
    deserialized,   \* per artifact file, the joblib.load calls that returned
    requests,       \* formulas entered so far
    raw, columns, aligned, realigned, apc   \* the alignment on its own

env == <<script, files, matminer, empty_raises, saved_columns, scaler_width, nan_rejected>>
proc == <<call, deserialized, requests>>
alignvars == <<raw, columns, aligned, realigned, apc>>
vars == <<env, proc, alignvars>>

\* The feature_columns lists a training run may have stored.
SavedColumnLists == {<<"min", "range">>, <<"range", "mode", "max">>}

\* ------------------------------------------------- external collaborators
\* StrToComposition on the inputs: the amounts of the formula's elements.
KnownFormulas == {"Fe2O3", "NaCl"}

Composition(formula) ==
    CASE formula = "Fe2O3" -> <<2, 3>>
      [] formula = "NaCl" -> <<1, 1>>
      [] OTHER -> <<>>

\* An unrecognized element symbol raises; the empty string raises or gives the
\* empty composition, as the installed library does.
ParseRaises(formula) ==
    IF formula = "" THEN empty_raises ELSE formula \notin KnownFormulas

SeqMin(s) == CHOOSE x \in {s[i] : i \in 1..Len(s)} : \A i \in 1..Len(s) : x <= s[i]
SeqMax(s) == CHOOSE x \in {s[i] : i \in 1..Len(s)} : \A i \in 1..Len(s) : x >= s[i]

\* ElementProperty.featurize_dataframe(..., ignore_errors=True): summary
\* statistics appended to the frame; a composition it cannot featurize gets NaN.
Featurize(formula, comp) ==
    <<Col("formula", Obj), Col("composition", Obj)>> \o
    (IF comp = <<>>
     THEN <<Col("min", NaN), Col("max", NaN), Col("range", NaN)>>
     ELSE <<Col("min", SeqMin(comp)), Col("max", SeqMax(comp)),
            Col("range", SeqMax(comp) - SeqMin(comp))>>)

Values(X) == [i \in 1..Len(X) |-> X[i].val]

\* scaler.transform(X): raises on a width other than the fitted one and on a
\* non-numeric cell; NaN passes through.
TransformRaises(X) ==
    \/ Len(X) # scaler_width
    \/ \E i \in 1..Len(X) : X[i].val = Obj

Transform(X) == Values(X)

HasNaN(x) == \E i \in 1..Len(x) : x[i] = NaN

RECURSIVE Sum(_)
Sum(x) == IF x = <<>> THEN 0 ELSE Head(x) + Sum(Tail(x))

\* model.predict(X)[0]
PredictRaises(x) == HasNaN(x) /\ nan_rejected

Predict(x) == IF HasNaN(x) THEN NaN ELSE Sum(x)

\* ------------------------------------------------------ predict_band_gap
\* A call of predict_band_gap(input_formula): where it is, the library and OS
\* operations it has performed, what it has printed, its return value, and its
\* locals input_df and X_input_scaled.
NewCall(formula) ==
    [pc |-> "check", formula |-> formula, trace |-> <<>>, out |-> <<>>,
     result |-> None, input_df |-> <<>>, X_input_scaled |-> <<>>]

Op(name, arg) == <<name, arg>>
Msg(text, arg) == <<text, arg>>

\* The scripts differ in what they print about an exception: the traceback.
Detail(s, block) ==
    IF s = "band_gap_prediction" \/ block = "input"
    THEN <<Msg("traceback", block)>>
    ELSE <<>>

\* return None, after printing msgs.
ReturnNone(c, ops, msgs) ==
    [c EXCEPT !.pc = "returned", !.trace = @ \o ops, !.out = @ \o msgs,
              !.result = None]

Exists(i) == Op("exists", required_files[i])
Load(i) == Op("load", required_files[i])

IsMissing(f) == files[f] = "missing"
IsCorrupt(f) == files[f] = "corrupt"

\* The index of the first file of required_files in the given state, 0 if none.
First(state) ==
    IF \E i \in 1..Len(required_files) : files[required_files[i]] = state
    THEN CHOOSE i \in 1..Len(required_files) :
            /\ files[required_files[i]] = state
            /\ \A j \in 1..(i - 1) : files[required_files[j]] # state
    ELSE 0

\* Mutant: only the first required file is checked.
CheckFilesRfFirstOnly(c) ==
    IF IsMissing(required_files[1])
    THEN ReturnNone(c, <<Exists(1)>>, <<Msg("not found", required_files[1])>>)
    ELSE [c EXCEPT !.pc = "load", !.trace = Append(@, Exists(1))]

\* Mutant: every file is checked and reported before returning.
CheckFilesRfAll(c) ==
    LET missing_files == SelectSeq(required_files, IsMissing)
        checks == [i \in 1..Len(required_files) |-> Exists(i)]
    IN  IF missing_files = <<>>
        THEN [c EXCEPT !.pc = "load", !.trace = @ \o checks]
        ELSE ReturnNone(c, checks,
                        [i \in 1..Len(missing_files) |-> Msg("not found", missing_files[i])])

\* rf.py: return at the first missing file.
CheckFilesRf(c) ==
    LET k == First("missing") IN
    IF k = 0
    THEN [c EXCEPT !.pc = "load",
                   !.trace = @ \o [i \in 1..Len(required_files) |-> Exists(i)]]
    ELSE ReturnNone(c, [i \in 1..k |-> Exists(i)],
                    <<Msg("not found", required_files[k])>>)

\* Mutant: the missing files are reported and the call goes on to load.
CheckFilesBgpNoReturn(c) ==
    LET missing_files == SelectSeq(required_files, IsMissing)
    IN  [c EXCEPT !.pc = "load",
                  !.trace = @ \o [i \in 1..Len(required_files) |-> Exists(i)],
                  !.out = @ \o [i \in 1..Len(missing_files) |->
                                   Msg("not found", missing_files[i])]]

\* band_gap_prediction.py: check every file, collect missing_files, report them
\* together with a listing of the script directory.
CheckFilesBgp(c) ==
    LET missing_files == SelectSeq(required_files, IsMissing)
        checks == [i \in 1..Len(required_files) |-> Exists(i)]
    IN  IF missing_files = <<>>
        THEN [c EXCEPT !.pc = "load", !.trace = @ \o checks]
        ELSE ReturnNone(c, checks \o <<Op("listdir", "")>>,
                        [i \in 1..Len(missing_files) |-> Msg("not found", missing_files[i])]
                        \o <<Msg("Missing files", "")>>)

\* The files the three joblib.load calls deserialize before one raises.
Deserializes ==
    LET k == First("corrupt") IN
    IF k = 0 THEN Files ELSE {required_files[i] : i \in 1..(k - 1)}

LoadModelFiles(s, c) ==
    LET k == First("corrupt") IN
    IF k = 0
    THEN [c EXCEPT !.pc = "import",
                   !.trace = @ \o [i \in 1..Len(required_files) |-> Load(i)],
                   !.out = Append(@, Msg("loaded successfully", ""))]
    ELSE ReturnNone(c, [i \in 1..k |-> Load(i)],
                    <<Msg("Error loading model files", required_files[k])>>
                    \o Detail(s, "load"))

ImportLibraries(s, c) ==
    IF matminer = "absent"
    THEN ReturnNone(c, <<Op("import", "matminer")>>,
                    <<Msg("Matminer package not found", "")>>)
    ELSE [c EXCEPT !.pc = "featurizer", !.trace = Append(@, Op("import", "matminer"))]

CreateFeaturizer(s, c) ==
    IF matminer = "no_preset"
    THEN ReturnNone(c, <<Op("from_preset", "magpie")>>,
                    <<Msg("Error creating featurizer", "")>> \o Detail(s, "featurizer"))
    ELSE [c EXCEPT !.pc = "input", !.trace = Append(@, Op("from_preset", "magpie"))]

PrepareInputData(s, c) ==
    IF ParseRaises(c.formula)
    THEN ReturnNone(c, <<Op("StrToComposition", c.formula)>>,
                    <<Msg("Error featurizing input formula", c.formula)>>
                    \o Detail(s, "input"))
    ELSE [c EXCEPT !.pc = "features",
                   !.trace = @ \o <<Op("StrToComposition", c.formula),
                                    Op("featurize", c.formula)>>,
                   !.out = Append(@, Msg("featurized successfully", c.formula)),
                   !.input_df = Featurize(c.formula, Composition(c.formula))]

\* Mutant: a failing scaler is answered by predicting on the unscaled features.
PrepareFeatureDataFallback(s, c) ==
    LET X_input == Reindex(c.input_df, saved_columns)
    IN  [c EXCEPT !.pc = "predict",
                  !.trace = @ \o <<Op("reindex", ""), Op("transform", "")>>,
                  !.X_input_scaled = Values(X_input.frame)]

PrepareFeatureData(s, c) ==
    LET X_input == Reindex(c.input_df, saved_columns)
        failed == <<Msg("Error preparing features", "")>> \o Detail(s, "features")
    IN  IF X_input.raised
        THEN ReturnNone(c, <<Op("reindex", "")>>, failed)
        ELSE IF TransformRaises(X_input.frame)
        THEN ReturnNone(c, <<Op("reindex", ""), Op("transform", "")>>, failed)
        ELSE [c EXCEPT !.pc = "predict",
                       !.trace = @ \o <<Op("reindex", ""), Op("transform", "")>>,
                       !.out = Append(@, Msg("prepared and scaled successfully", "")),
                       !.X_input_scaled = Transform(X_input.frame)]

MakePrediction(s, c) ==
    IF PredictRaises(c.X_input_scaled)
    THEN ReturnNone(c, <<Op("predict", "")>>,
                    <<Msg("Error in prediction", "")>> \o Detail(s, "predict"))
    ELSE [c EXCEPT !.pc = "returned",
                   !.trace = Append(@, Op("predict", "")),
                   !.result = Scalar(Predict(c.X_input_scaled))]

\* One block of predict_band_gap as script s runs it.
InCall == {"check", "load", "import", "featurizer", "input", "features", "predict"}

Step(s, c) ==
    CASE c.pc = "check" -> IF s = "rf" THEN CheckFilesRf(c) ELSE CheckFilesBgp(c)
      [] c.pc = "load" -> LoadModelFiles(s, c)
      [] c.pc = "import" -> ImportLibraries(s, c)
      [] c.pc = "featurizer" -> CreateFeaturizer(s, c)
      [] c.pc = "input" -> PrepareInputData(s, c)
      [] c.pc = "features" -> PrepareFeatureData(s, c)
      [] c.pc = "predict" -> MakePrediction(s, c)
      [] OTHER -> c

\* predict_band_gap(formula) of script s, run to its return.
predict_band_gap(s, formula) ==
    Step(s, Step(s, Step(s, Step(s, Step(s, Step(s, Step(s, NewCall(formula))))))))

\* ------------------------------------------------------------- the state
Idle == [NewCall("") EXCEPT !.pc = "prompt"]

EnvInit ==
    /\ script \in Scripts
    /\ files \in [Files -> {"missing", "corrupt", "ok"}]
    /\ matminer \in {"absent", "no_preset", "ok"}
    /\ empty_raises \in BOOLEAN
    /\ saved_columns \in SavedColumnLists
    /\ scaler_width \in {Len(l) : l \in SavedColumnLists}
    /\ nan_rejected \in BOOLEAN

AlignIdle ==
    /\ raw = <<>>
    /\ columns = <<>>
    /\ aligned = <<>>
    /\ realigned = <<>>
    /\ apc = "off"

Init ==
    /\ EnvInit
    /\ call = Idle
    /\ deserialized = [f \in Files |-> 0]
    /\ requests = 0
    /\ AlignIdle

\* ---------------------------------------------------- process_user_input
\* formula = input(...); if formula.lower() == 'exit': break; otherwise
\* band_gap = predict_band_gap(formula).
Prompt ==
    /\ call.pc = "prompt"
    /\ \E formula \in Inputs :
          IF Lower(formula) = "exit"
          THEN /\ call' = [call EXCEPT !.pc = "exited", !.formula = formula]
               /\ UNCHANGED requests
          ELSE /\ requests < MaxRequests
               /\ call' = NewCall(formula)
               /\ requests' = requests + 1
    /\ UNCHANGED <<env, deserialized, alignvars>>

CheckFiles ==
    /\ call.pc = "check"
    /\ call' = Step(script, call)
    /\ UNCHANGED <<env, deserialized, requests, alignvars>>

LoadFiles ==
    /\ call.pc = "load"
    /\ call' = Step(script, call)
    /\ deserialized' = [f \in Files |->
                           IF f \in Deserializes THEN deserialized[f] + 1
                           ELSE deserialized[f]]
    /\ UNCHANGED <<env, requests, alignvars>>

Import ==
    /\ call.pc = "import"
    /\ call' = Step(script, call)
    /\ UNCHANGED <<env, deserialized, requests, alignvars>>

Featurizer ==
    /\ call.pc = "featurizer"
    /\ call' = Step(script, call)
    /\ UNCHANGED <<env, deserialized, requests, alignvars>>

PrepareInput ==
    /\ call.pc = "input"
    /\ call' = Step(script, call)
    /\ UNCHANGED <<env, deserialized, requests, alignvars>>

PrepareFeatures ==
    /\ call.pc = "features"
    /\ call' = Step(script, call)
    /\ UNCHANGED <<env, deserialized, requests, alignvars>>

MakePredictionStep ==
    /\ call.pc = "predict"
    /\ call' = Step(script, call)
    /\ UNCHANGED <<env, deserialized, requests, alignvars>>

\* if band_gap is not None: print the prediction; else: print the failure.
Report ==
    /\ call.pc = "returned"
    /\ call' = [call EXCEPT
                  !.pc = "prompt",
                  !.out = Append(@, IF call.result # None
                                    THEN Msg("Predicted band gap", call.formula)
                                    ELSE Msg("Unable to predict band gap", call.formula))]
    /\ UNCHANGED <<env, deserialized, requests, alignvars>>

Next ==
    \/ Prompt
    \/ CheckFiles
    \/ LoadFiles
    \/ Import
    \/ Featurizer
    \/ PrepareInput
    \/ PrepareFeatures
    \/ MakePredictionStep
    \/ Report

Spec == Init /\ [][Next]_vars

\* ------------------------------------------------- the alignment on its own
\* The labels a featurizer may produce and the labels a training run may have
\* stored; "mode" is one the featurizer here never produces.
FeatureLabels == {"min", "max"}
ColumnLabels == FeatureLabels \cup {"mode", "formula", "composition"}

\* Frames as predict_band_gap holds them after featurize_dataframe: the formula
\* and composition columns, then distinctly labelled features.
FeatureLists ==
    UNION {{f \in [1..n -> [name : FeatureLabels, val : (0..MaxVal) \cup {NaN}]] :
              IsUnique(Labels(f))} : n \in 0..Cardinality(FeatureLabels)}

RawFrames == {<<Col("formula", Obj), Col("composition", Obj)>> \o f : f \in FeatureLists}

\* feature_columns as joblib.load may return it: any list of labels.
ColumnLists == UNION {[1..n -> ColumnLabels] : n \in 0..MaxCols}

InitAlign ==
    /\ script = "rf"
    /\ files = [f \in Files |-> "ok"]
    /\ matminer = "ok"
    /\ empty_raises = TRUE
    /\ saved_columns = <<>>
    /\ scaler_width = 0
    /\ nan_rejected = TRUE
    /\ call = Idle
    /\ deserialized = [f \in Files |-> 0]
    /\ requests = 0
    /\ raw \in RawFrames
    /\ columns \in ColumnLists
    /\ aligned = [raised |-> FALSE, frame |-> <<>>]
    /\ realigned = [raised |-> FALSE, frame |-> <<>>]
    /\ apc = "raw"

\* X_input = input_df.reindex(columns=feature_columns, fill_value=0)
Align ==
    /\ apc = "raw"
    /\ aligned' = Reindex(raw, columns)
    /\ apc' = "aligned"
    /\ UNCHANGED <<env, proc, raw, columns, realigned>>

\* The aligned frame aligned once more against the same feature_columns.
Realign ==
    /\ apc = "aligned"
    /\ ~aligned.raised
    /\ realigned' = Reindex(aligned.frame, columns)
    /\ apc' = "realigned"
    /\ UNCHANGED <<env, proc, raw, columns, aligned>>

NextAlign == Align \/ Realign

SpecAlign == InitAlign /\ [][NextAlign]_vars

\* =================================================================== claims
HasOp(c, name) == \E i \in 1..Len(c.trace) : c.trace[i][1] = name
Printed(c, text) == \E i \in 1..Len(c.out) : c.out[i][1] = text

\* -------------------------------------------------------------------- C1
\* C1: the aligned vector has exactly the names of feature_columns, in that
\* order and of that length; a column the raw vector has keeps its raw value,
\* a column it lacks is 0, a raw feature outside feature_columns is gone; the
\* alignment does not raise.
C1_AlignedIsFeatureColumns ==
    apc \in {"aligned", "realigned"} =>
        /\ ~aligned.raised
        /\ Len(aligned.frame) = Len(columns)
        /\ \A i \in 1..Len(columns) :
              /\ aligned.frame[i].name = columns[i]
              /\ \A j \in 1..Len(raw) :
                    raw[j].name = columns[i] => aligned.frame[i].val = raw[j].val
              /\ (\A j \in 1..Len(raw) : raw[j].name # columns[i])
                    => aligned.frame[i].val = 0
        /\ \A j \in 1..Len(raw) :
              (\A i \in 1..Len(columns) : columns[i] # raw[j].name)
                  => \A i \in 1..Len(aligned.frame) : aligned.frame[i].name # raw[j].name

\* A frame aligned to columns of which one is kept, one is filled, while a raw
\* feature is dropped.
C1_Witness ==
    /\ apc = "aligned"
    /\ columns = <<"mode", "max">>
    /\ \E j \in 1..Len(raw) : raw[j].name = "max" /\ raw[j].val = 1
    /\ \E j \in 1..Len(raw) : raw[j].name = "min"
    /\ aligned.frame = <<Col("mode", 0), Col("max", 1)>>

\* -------------------------------------------------------------------- C9
\* C9: aligning the aligned vector again against the same feature_columns
\* returns it unchanged: same columns, same order, same values.
C9_ReindexIdempotent ==
    apc = "realigned" => (~realigned.raised /\ realigned.frame = aligned.frame)

\* The second alignment of a frame whose feature_columns repeat a label and
\* name one the raw vector lacks.
C9_Witness ==
    /\ apc = "realigned"
    /\ columns = <<"max", "max">>
    /\ \E j \in 1..Len(raw) : raw[j].name = "max" /\ raw[j].val = 1
    /\ realigned.frame = <<Col("max", 1), Col("max", 1)>>

\* ------------------------------------------------- reading a call's trace
Returned == call.pc = "returned"

OpNames(c) == [i \in 1..Len(c.trace) |-> c.trace[i][1]]

IsCheckOp(op) == op[1] \in {"exists", "listdir"}
IsWorkOp(op) == ~IsCheckOp(op)

\* Whether the operation op of call c failed, as the environment decides it.
OpFailed(c, op) ==
    CASE op[1] = "exists" -> files[op[2]] = "missing"
      [] op[1] = "load" -> files[op[2]] = "corrupt"
      [] op[1] = "import" -> matminer = "absent"
      [] op[1] = "from_preset" -> matminer = "no_preset"
      [] op[1] = "StrToComposition" ->
            (op[2] # "" /\ op[2] \notin {"Fe2O3", "NaCl"}) \/ (op[2] = "" /\ empty_raises)
      [] op[1] = "transform" ->
            \/ Len(saved_columns) # scaler_width
            \/ \E i \in 1..Len(saved_columns) : saved_columns[i] \in {"formula", "composition"}
      [] op[1] = "predict" ->
            nan_rejected /\ \E i \in 1..Len(c.X_input_scaled) : c.X_input_scaled[i] = -1
      [] OTHER -> FALSE

Failed(c) == \E i \in 1..Len(c.trace) : OpFailed(c, c.trace[i])

\* The pipeline stage an operation belongs to, in the order of the pipeline.
StageRank(name) ==
    CASE name \in {"exists", "listdir"} -> 1
      [] name = "load" -> 2
      [] name = "import" -> 3
      [] name = "from_preset" -> 4
      [] name = "StrToComposition" -> 5
      [] name = "featurize" -> 6
      [] name = "reindex" -> 7
      [] name = "transform" -> 8
      [] name = "predict" -> 9

\* The operations of a call that runs every stage.
FullPipeline ==
    <<"exists", "exists", "exists", "load", "load", "load", "import", "from_preset",
      "StrToComposition", "featurize", "reindex", "transform", "predict">>

AnyMissing == \E f \in Files : files[f] = "missing"
AllMissing == \A f \in Files : files[f] = "missing"
AllLoadable == \A f \in Files : files[f] = "ok"

\* -------------------------------------------------------------------- C2
\* C2: with an artifact file missing, the call ends in the missing-file report
\* and None, having deserialized no artifact and started no formula parsing or
\* featurization.
C2_MissingFailsBeforeLoading ==
    AnyMissing =>
        /\ \A i \in 1..Len(call.trace) : call.trace[i][1] \in {"exists", "listdir"}
        /\ \A f \in Files : deserialized[f] = 0
        /\ call.pc \in {"prompt", "check", "returned", "exited"}
        /\ Returned =>
              /\ call.result = <<>>
              /\ \E i \in 1..Len(call.out) :
                    call.out[i][1] = "not found" /\ files[call.out[i][2]] = "missing"

\* A call that returned with only the scaler file missing.
C2_Witness ==
    /\ Returned
    /\ files["bandgap_model.joblib"] = "ok"
    /\ files["scaler.joblib"] = "missing"
    /\ files["feature_columns.joblib"] = "corrupt"
    /\ call.formula = "Fe2O3"
    /\ call.result = <<>>

\* -------------------------------------------------------------------- C6
\* C6: the operations of a call follow the pipeline order; an operation that
\* failed is the last one of the call (but for the remaining existence checks
\* of the same stage); a scalar is returned exactly when no operation failed,
\* and then every stage ran once, in order.
C6_StagesInOrderShortCircuit ==
    /\ \A i, j \in 1..Len(call.trace) :
          i < j => /\ StageRank(call.trace[i][1]) <= StageRank(call.trace[j][1])
                   /\ (OpFailed(call, call.trace[i])
                         => StageRank(call.trace[j][1]) = StageRank(call.trace[i][1]))
                   /\ ~(OpFailed(call, call.trace[i]) /\ call.trace[i][1] # "exists")
    /\ call.pc \in InCall => (call.result = <<>> /\ ~Failed(call))
    /\ Returned => /\ (call.result # <<>>) = ~Failed(call)
                   /\ Len(call.result) <= 1
                   /\ call.result # <<>> => OpNames(call) = FullPipeline
                   /\ call.result = <<>> => OpFailed(call, call.trace[Len(call.trace)])
                                            \/ call.trace[Len(call.trace)][1] \in {"exists", "listdir"}

\* A call stopped by the scaler: aligned and transformed, never predicted.
C6_Witness ==
    /\ Returned
    /\ call.result = <<>>
    /\ call.trace[Len(call.trace)][1] = "transform"
    /\ call.formula = "NaCl"
    /\ ~HasOp(call, "predict")

\* -------------------------------------------------------------------- C7
Other(s) == IF s = "rf" THEN "band_gap_prediction" ELSE "rf"

IsPrefix(a, b) == Len(a) <= Len(b) /\ SubSeq(b, 1, Len(a)) = a

\* C7 as claimed: on the same formula and artifacts the other script performs
\* the same sequence of operations and returns the same result.
C7_SameOperationsAndResult ==
    Returned =>
        LET o == predict_band_gap(Other(script), call.formula)
        IN  o.pc = "returned" /\ o.trace = call.trace /\ o.result = call.result

\* C7 as amended: the two scripts return the same result and perform the same
\* loads, featurization, alignment, scaling and prediction; the existence
\* checks of rf.py are a prefix of those of band_gap_prediction.py, and the
\* whole sequences are the same when no artifact file is missing.
C7_SameResultAndPipeline ==
    Returned =>
        LET o == predict_band_gap(Other(script), call.formula)
            inRf == IF script = "rf" THEN call ELSE o
            inBgp == IF script = "rf" THEN o ELSE call
        IN  /\ o.pc = "returned"
            /\ inRf.result = inBgp.result
            /\ SelectSeq(inRf.trace, IsWorkOp) = SelectSeq(inBgp.trace, IsWorkOp)
            /\ IsPrefix(SelectSeq(inRf.trace, IsCheckOp), SelectSeq(inBgp.trace, IsCheckOp))
            /\ ~AnyMissing => inRf.trace = inBgp.trace

\* A call that returned a scalar, which the other script returns too.
C7_Witness ==
    /\ Returned
    /\ call.result = <<3>>
    /\ call.formula = "Fe2O3"
    /\ predict_band_gap(Other(script), "Fe2O3").result = <<3>>

\* -------------------------------------------------------------------- C8
ExistenceChecks(c) ==
    LET ops == SelectSeq(c.trace, LAMBDA op : op[1] = "exists")
    IN  [i \in 1..Len(ops) |-> ops[i][2]]

ReportedMissing(c) ==
    LET msgs == SelectSeq(c.out, LAMBDA m : m[1] = "not found")
    IN  [i \in 1..Len(msgs) |-> msgs[i][2]]

\* C8 as claimed: in an empty artifact directory the failure is reported for
\* bandgap_model.joblib and the other two files are not checked for existence.
C8_FirstMissingOnly ==
    (AllMissing /\ Returned) =>
        /\ ExistenceChecks(call) = <<"bandgap_model.joblib">>
        /\ ReportedMissing(call) = <<"bandgap_model.joblib">>

\* C8 as amended: in an empty artifact directory rf.py reports
\* bandgap_model.joblib and checks no other file, band_gap_prediction.py checks
\* the three files in order and reports the three; both return None and load
\* nothing.
C8_MissingReportPerScript ==
    (AllMissing /\ Returned) =>
        /\ call.result = <<>>
        /\ ~HasOp(call, "load")
        /\ script = "rf" =>
              /\ ExistenceChecks(call) = <<"bandgap_model.joblib">>
              /\ ReportedMissing(call) = <<"bandgap_model.joblib">>
        /\ script = "band_gap_prediction" =>
              /\ ExistenceChecks(call) =
                    <<"bandgap_model.joblib", "scaler.joblib", "feature_columns.joblib">>
              /\ ReportedMissing(call) =
                    <<"bandgap_model.joblib", "scaler.joblib", "feature_columns.joblib">>

\* band_gap_prediction.py returned from a call in an empty artifact directory.
C8_Witness ==
    /\ AllMissing
    /\ Returned
    /\ script = "band_gap_prediction"
    /\ Len(ExistenceChecks(call)) = 3

\* ------------------------------------------------------------------- C10
\* The inputs that equal 'exit' when letter case is ignored.
ExitWords == {"exit", "EXIT", "Exit"}

UnableReport(c) == <<"Unable to predict band gap", c.formula>>

\* C10: the loop ends exactly on an input that is 'exit' up to letter case,
\* without calling predict_band_gap for it; any other input starts exactly one
\* call; a call only ever moves on to its next block or returns; after the
\* return the loop prompts again, and a call in which an operation failed has
\* returned None and is reported as 'Unable to predict'.
C10_LoopEndsOnlyOnExit ==
    [][ /\ call.pc = "prompt" =>
              /\ call'.pc \in {"exited", "check"}
              /\ (call'.pc = "exited") = (call'.formula \in ExitWords)
              /\ call'.pc = "exited" =>
                    /\ call'.trace = call.trace
                    /\ requests' = requests
                    /\ deserialized' = deserialized
              /\ call'.pc = "check" => (requests' = requests + 1 /\ call'.trace = <<>>)
        /\ call.pc \in InCall =>
              /\ call'.pc \in InCall \cup {"returned"}
              /\ call'.formula = call.formula
              /\ requests' = requests
              /\ IsPrefix(call.trace, call'.trace)
        /\ call.pc = "returned" =>
              /\ call'.pc = "prompt"
              /\ call'.trace = call.trace
              /\ Failed(call) =>
                    /\ call.result = <<>>
                    /\ call'.out[Len(call'.out)] = UnableReport(call)
        /\ call.pc # "exited"
      ]_vars

\* The loop left on 'Exit' after two requests, the last of them reported as
\* unable to predict.
C10_Witness ==
    /\ call.pc = "exited"
    /\ call.formula = "Exit"
    /\ requests = 2
    /\ call.result = <<>>
    /\ Failed(call)
    /\ call.out[Len(call.out)][1] = "Unable to predict band gap"

\* -------------------------------------------------------------------- C3
\* C3: with every artifact loadable (and the featurization library usable), a
\* call on a malformed formula, the empty string or an unrecognized symbol,
\* returns None with the formula error reported and runs neither
\* scaler.transform nor model.predict.
C3_MalformedStopsBeforeScaler ==
    (Returned /\ AllLoadable /\ matminer = "ok" /\ call.formula \in {"", "Xx2"}) =>
        /\ call.result = <<>>
        /\ Printed(call, "Error featurizing input formula")
        /\ ~HasOp(call, "transform")
        /\ ~HasOp(call, "predict")

\* -------------------------------------------------------------------- C4
\* The error kind of the stage an operation belongs to.
KindOf(name) ==
    CASE name \in {"exists", "listdir"} -> "ArtifactMissing"
      [] name = "load" -> "ArtifactCorrupt"
      [] name = "StrToComposition" -> "FormulaParseError"
      [] name = "featurize" -> "FeaturizationError"
      [] name = "transform" -> "ScalingError"
      [] name = "predict" -> "PredictionError"
      [] OTHER -> name

FailedKind(c) ==
    KindOf(c.trace[CHOOSE i \in 1..Len(c.trace) :
                      /\ OpFailed(c, c.trace[i])
                      /\ \A j \in 1..(i - 1) : ~OpFailed(c, c.trace[j])][1])

\* C4: the outcome returned to the caller identifies the kind of the stage that
\* failed: two calls that failed in stages of different kinds do not return the
\* same outcome.
C4_OutcomeIdentifiesStage ==
    Returned =>
        \A f \in Inputs \ ExitWords :
            LET o == predict_band_gap(script, f)
            IN  (Failed(call) /\ Failed(o) /\ FailedKind(call) # FailedKind(o))
                    => call.result # o.result

\* -------------------------------------------------------------------- C5
\* C5: over the requests of one process each artifact is deserialized at most
\* once.
C5_DeserializedAtMostOnce == \A f \in Files : deserialized[f] <= 1

====
